---- MODULE Spec2Model ----
(***************************************************************************)
(* Fixture dependency graph engine of pytest-deep-analysis                 *)
(* (src/pytest_deep_analysis/checkers.py, utils.py).                       *)
(*                                                                         *)
(* The checker is a passive visitor: the host calls visit_module for a     *)
(* module, walks its function definitions (visit_functiondef /             *)
(* leave_functiondef, visit_call, visit_assert) and finally calls close(). *)
(* The state is the checker's fields, the diagnostics it has handed to     *)
(* add_message, the two files of the semantic feedback loop, and the       *)
(* position of the host's traversal.                                       *)
(*                                                                         *)
(* Python constants (keyword values of the fixture decorator) are written  *)
(* as the text of the literal: "session", "True", "None", "1", ...         *)
(***************************************************************************)
EXTENDS Integers, Sequences, FiniteSets, TLC

VARIABLES
    files,                    \* the analysed project: module -> top-level nodes
    module_file,              \* module -> the file attribute the parser gave it
    cache_file,               \* .pytest_deep_analysis_cache.json as the checker finds it
    fixture_graph,            \* ordered dict: sequence of [key, infos]
    test_fixture_usage,       \* dict: test name -> list of parameter names
    _test_fixture_params,     \* dict: test name -> set of parameter names
    fixture_usage_locations,  \* dict as a set of <<fixture name, file>>
    _processed_fixtures,      \* set of id(node)
    _in_test_function,
    _current_test_node,       \* node reference or NoNode
    _test_has_assertions,
    _test_has_state_assertions,
    _test_has_mock_verifications,
    _assertion_count,
    _has_shared_state_access,
    _semantic_validation_tasks, \* ordered dict: sequence of [key, types]
    _validation_cache,        \* dict: test id -> JSON value
    task_file,                \* .pytest_deep_analysis_tasks.json as close() left it
    messages,                 \* every add_message call, in order
    error,                    \* the exception that left a handler, or NoError
    cur, pos, sub, phase,     \* host traversal: module, child index, grandchild index, step
    pending,                  \* module the harness visited and has yet to walk
    visits,                   \* visit_module calls so far, per file
    closes,                   \* close() calls so far
    replay,                   \* the host's script when it repeats a run, or NoReplay
    xdist                     \* the worker results saved so far and what merging them gave

\* the fields every test function resets
testFlags == <<_test_has_assertions, _test_has_state_assertions,
               _test_has_mock_verifications, _assertion_count, _has_shared_state_access>>

\* the fields only the semantic feedback loop touches
feedbackVars == <<_semantic_validation_tasks, _validation_cache, task_file>>

\* what no handler assigns
inputVars == <<files, module_file, cache_file>>

vars == <<files, module_file, cache_file, fixture_graph, test_fixture_usage, _test_fixture_params,
          fixture_usage_locations, _processed_fixtures, _in_test_function,
          _current_test_node, testFlags, feedbackVars, messages, error,
          cur, pos, sub, phase, pending, visits, closes, replay, xdist>>

(***************************************************************************)
(* Bounds                                                                  *)
(***************************************************************************)
MaxVisits == 2      \* visit_module calls in a run
MaxCloses == 2      \* close() calls in a run
MaxDecls == 2       \* function definitions in a generated project
MaxShadowDecls == 3 \* function definitions in a project of the shadowing family
MaxShadowed == 2    \* declarations of the dependency in the scope family
MaxReturns == 2     \* return statements in a fixture of the stateful family
MaxBody == 2        \* statements in the body of a function, class or if of the body family
MaxParams == 3      \* formal parameters of the test of the parameter family
MaxWorkers == 2     \* worker results handed to merge_fixture_graphs

Paths == {"a.py", "b.py"}
NoFile == "<none>"
NoNode == <<NoFile, 0>>

(***************************************************************************)
(* Generic helpers                                                         *)
(***************************************************************************)
Range(s) == {s[i] : i \in DOMAIN s}

SeqsUpTo(S, n) == UNION {[1..k -> S] : k \in 0..n}

RECURSIVE Flatten(_)
Flatten(ss) == IF ss = <<>> THEN <<>> ELSE Head(ss) \o Flatten(Tail(ss))

\* [f(x) for x in s]
MapSeq(f(_), s) == [i \in DOMAIN s |-> f(s[i])]

\* d[k] = v on a dict modelled as a function with a growing domain
DictSet(d, k, v) == [x \in (DOMAIN d) \cup {k} |-> IF x = k THEN v ELSE d[x]]

EmptyDict == [x \in {} |-> <<>>]

(***************************************************************************)
(* Syntax nodes supplied by the parser                                     *)
(***************************************************************************)
Keyword(arg, value) == [arg |-> arg, is_const |-> TRUE, value |-> value]

\* @pytest.fixture
AttrDecorator == [type |-> "Attribute", func |-> "", name |-> "fixture", keywords |-> <<>>]
\* @fixture
NameDecorator == [type |-> "Name", func |-> "", name |-> "fixture", keywords |-> <<>>]
\* @pytest.fixture(k1=v1, ...)
CallDecorator(kws) == [type |-> "Call", func |-> "Attribute", name |-> "fixture", keywords |-> kws]

\* what the checker's syntactic predicates answer for a function when nothing
\* in it makes them true
NoFacts == [is_complex |-> FALSE, has_contract |-> FALSE, has_file_io |-> FALSE,
            db_commit_no_cleanup |-> FALSE, has_pytest_raises |-> FALSE,
            has_bdd_traceability |-> FALSE, should_suggest_pbt |-> FALSE,
            is_parametrized |-> FALSE]

FunctionDef(name, decorators, args, returns) ==
    [type |-> "FunctionDef", name |-> name, decorators |-> decorators,
     args |-> args, returns |-> returns, body |-> <<>>, qualname |-> "",
     facts |-> [NoFacts EXCEPT !.is_complex =
                   \E i \in DOMAIN decorators : \E j \in DOMAIN decorators[i].keywords :
                       decorators[i].keywords[j].value = "session"]]

\* a function with statements in its body
WithBody(node, body) == [node EXCEPT !.body = body]

\* class C: <body>
ClassDef(name, body) ==
    [type |-> "ClassDef", name |-> name, decorators |-> <<>>, args |-> <<>>,
     returns |-> <<>>, body |-> body, qualname |-> "", facts |-> NoFacts]

\* if ...: <body>
If(body) ==
    [type |-> "If", name |-> "", decorators |-> <<>>, args |-> <<>>,
     returns |-> <<>>, body |-> body, qualname |-> "", facts |-> NoFacts]

\* an expression statement that calls qualname
Call(qualname) ==
    [type |-> "Call", name |-> "", decorators |-> <<>>, args |-> <<>>,
     returns |-> <<>>, body |-> <<>>, qualname |-> qualname, facts |-> NoFacts]

\* assert <expression>
AssertStmt ==
    [type |-> "Assert", name |-> "", decorators |-> <<>>, args |-> <<>>,
     returns |-> <<>>, body |-> <<>>, qualname |-> "", facts |-> NoFacts]

\* return-expression shapes
RetList == [type |-> "List", qualname |-> "", pytypes |-> {}]
RetDict == [type |-> "Dict", qualname |-> "", pytypes |-> {}]
RetSet == [type |-> "Set", qualname |-> "", pytypes |-> {}]
RetTuple == [type |-> "Tuple", qualname |-> "", pytypes |-> {}]
RetBare == [type |-> "None", qualname |-> "", pytypes |-> {}]
RetCall(qualname, pytypes) == [type |-> "Call", qualname |-> qualname, pytypes |-> pytypes]

\* node reference: the node object itself, identified by where it stands
NodeRef(f, i) == <<f, i>>
\* the j-th statement in the body of the i-th top-level node
ChildRef(f, i, j) == <<f, i, j>>
NodeAt(ref) ==
    IF Len(ref) = 2 THEN files[ref[1]][ref[2]] ELSE files[ref[1]][ref[2]].body[ref[3]]
\* every top-level node takes one line and one line for each statement of a
\* body of the greatest length
Lineno(ref) ==
    (ref[2] - 1) * (MaxBody + 1) + 1 + (IF Len(ref) = 2 THEN 0 ELSE ref[3])

(***************************************************************************)
(* File names.  A path is the sequence of its components; an absolute path *)
(* begins with the component "/".  The paths of the model hold no "." and  *)
(* no ".." component, so normalising leaves them as they are.              *)
(***************************************************************************)
\* the file attribute of a module built from a string: None
NoneFile == <<>>

\* os.getcwd(), which is also the project root the checker caches
getcwd == <<"/", "proj">>

isabs(path) == path # <<>> /\ path[1] = "/"

abspath(path) == IF isabs(path) THEN path ELSE getcwd \o path

\* the length of the longest common prefix of two component lists
RECURSIVE commonprefix(_, _)
commonprefix(a, b) ==
    IF a = <<>> \/ b = <<>> \/ Head(a) # Head(b) THEN 0
    ELSE 1 + commonprefix(Tail(a), Tail(b))

\* posixpath.relpath(path, start)
relpath(path, start) ==
    LET start_list == Tail(abspath(start))
        path_list == Tail(abspath(path))
        i == commonprefix(start_list, path_list)
        rel_list == [k \in 1..(Len(start_list) - i) |-> ".."]
                    \o SubSeq(path_list, i + 1, Len(path_list))
    IN IF rel_list = <<>> THEN <<".">> ELSE rel_list

\* f"{file}": the text of the file attribute in a formatted string
FormatFile(file) == IF file = NoneFile THEN <<"None">> ELSE file

\* file if file else "<unknown>"
FileOrUnknown(file) == IF file # NoneFile THEN file ELSE <<"<unknown>">>

\* node.root().file
RootFile(ref) == module_file[ref[1]]

(***************************************************************************)
(* utils.py                                                                *)
(***************************************************************************)
\* names that begin with "test_" among the names of the model
TestPrefixed == {"test_one", "test_two"}

is_test_function(node) == node.name \in TestPrefixed

is_pytest_fixture(node) ==
    \E i \in DOMAIN node.decorators :
        LET d == node.decorators[i] IN
        \/ d.type = "Name" /\ d.name = "fixture"
        \/ d.type = "Attribute" /\ d.name = "fixture"
        \/ d.type = "Call" /\ d.func \in {"Name", "Attribute"} /\ d.name = "fixture"

_is_fixture_decorator(d) ==
    d.type = "Call" /\ d.func \in {"Name", "Attribute"} /\ d.name = "fixture"

\* None is written "None": both "not a constant" and the constant None give it
_extract_scope_from_keyword(kw) ==
    IF kw.arg # "scope" THEN "None"
    ELSE IF kw.is_const THEN kw.value ELSE "None"

_extract_autouse_from_keyword(kw) ==
    IF kw.arg # "autouse" THEN "None"
    ELSE IF kw.is_const THEN kw.value ELSE "None"

RECURSIVE KeywordLoop(_, _)
KeywordLoop(kws, acc) ==
    IF kws = <<>> THEN acc
    ELSE LET extracted_scope == _extract_scope_from_keyword(Head(kws))
             extracted_autouse == _extract_autouse_from_keyword(Head(kws))
             scope == IF extracted_scope # "None" THEN extracted_scope ELSE acc[1]
             autouse == IF extracted_autouse # "None" THEN extracted_autouse ELSE acc[2]
         IN KeywordLoop(Tail(kws), <<scope, autouse>>)

RECURSIVE DecoratorLoop(_, _)
DecoratorLoop(decs, acc) ==
    IF decs = <<>> THEN acc
    ELSE IF ~_is_fixture_decorator(Head(decs)) THEN DecoratorLoop(Tail(decs), acc)
    ELSE DecoratorLoop(Tail(decs), KeywordLoop(Head(decs).keywords, acc))

\* <<scope, autouse>>
get_fixture_decorator_args(node) == DecoratorLoop(node.decorators, <<"function", "False">>)

SpecialArgs == {"request", "self", "cls"}
get_fixture_dependencies(node) == SelectSeq(node.args, LAMBDA a : a \notin SpecialArgs)

\* every constant taken as true
Truthy_Always(v) == TRUE

\* Python truth value of a constant
Truthy(v) == v \notin {"False", "None", "0", ""}

ScopeNames == {"function", "class", "module", "package", "session"}
SCOPE_ORDER == [s \in ScopeNames |->
                   CASE s = "function" -> 1 [] s = "class" -> 2 [] s = "module" -> 3
                     [] s = "package" -> 4 [] s = "session" -> 5]

\* SCOPE_ORDER.get(scope, 1)
ScopeValue(scope) == IF scope \in DOMAIN SCOPE_ORDER THEN SCOPE_ORDER[scope] ELSE 1

\* compare_fixture_scopes with its operands swapped
compare_fixture_scopes_Swapped(scope1, scope2) == ScopeValue(scope2) - ScopeValue(scope1)

compare_fixture_scopes(scope1, scope2) == ScopeValue(scope1) - ScopeValue(scope2)

get_call_qualname(value) == value.qualname

(***************************************************************************)
(* FixtureInfo and the fixture graph (an insertion-ordered dict of lists)  *)
(***************************************************************************)
FixtureInfo(name, scope, autouse, dependencies, file_path, node) ==
    [name |-> name, scope |-> scope, autouse |-> autouse,
     dependencies |-> dependencies, file_path |-> file_path, node |-> node,
     used_by |-> {}]

HasKey(graph, k) == \E i \in DOMAIN graph : graph[i].key = k
Get(graph, k) == graph[CHOOSE i \in DOMAIN graph : graph[i].key = k].infos

\* the new record put in front of the list
GraphAppend_Prepend(graph, name, info) ==
    IF HasKey(graph, name)
    THEN [i \in DOMAIN graph |->
            IF graph[i].key = name
            THEN [graph[i] EXCEPT !.infos = <<info>> \o @] ELSE graph[i]]
    ELSE Append(graph, [key |-> name, infos |-> <<info>>])

\* self.fixture_graph[name].append(info), creating the list when needed
GraphAppend(graph, name, info) ==
    IF HasKey(graph, name)
    THEN [i \in DOMAIN graph |->
            IF graph[i].key = name
            THEN [graph[i] EXCEPT !.infos = Append(@, info)] ELSE graph[i]]
    ELSE Append(graph, [key |-> name, infos |-> <<info>>])

\* for fixture_name, fixture_infos in items(): for fixture_info in fixture_infos
AllInfos(graph) == Flatten(MapSeq(LAMBDA b : b.infos, graph))

\* id(node): distinct for objects that are alive together
id(ref) == (IF ref[1] = "a.py" THEN 0 ELSE 100) + Lineno(ref)

Message(msgid, node, line, args) ==
    [msgid |-> msgid, node |-> node, line |-> line, args |-> args]

(***************************************************************************)
(* The validation cache read at construction                               *)
(***************************************************************************)
NoError == "<no error>"

\* JSON values as json.loads gives them
JObj(members) == [json |-> "object", members |-> members]
JArr == [json |-> "array", members |-> EmptyDict]
JStr == [json |-> "string", members |-> EmptyDict]
JTrue == [json |-> "true", members |-> EmptyDict]
JFalse == [json |-> "false", members |-> EmptyDict]
JNull == [json |-> "null", members |-> EmptyDict]

\* no value taken as true
JTruthy_Never(v) == FALSE

\* Python truth value of a loaded JSON value (strings and arrays of the model
\* are not empty)
JTruthy(v) ==
    \/ v.json \in {"true", "string", "array"}
    \/ v.json = "object" /\ DOMAIN v.members # {}

\* d.get(k, {}) on a dict
JGet(members, k) == IF k \in DOMAIN members THEN members[k] ELSE JObj(EmptyDict)

\* the cache file on disk: absent, or what reading it does
NoCacheFile == [state |-> "missing", data |-> JNull]
UnreadableCacheFile == [state |-> "unreadable", data |-> JNull]
UndecodableCacheFile == [state |-> "undecodable", data |-> JNull]
InvalidJsonCacheFile == [state |-> "invalid_json", data |-> JNull]
JsonCacheFile(data) == [state |-> "json", data |-> data]

\* [raised, value]: the exception that leaves the loader, or the dict it returns.
\* Path.read_text raises OSError for a file it cannot read and
\* UnicodeDecodeError (a ValueError) for bytes it cannot decode; json.loads
\* raises JSONDecodeError; the except clause names IOError, OSError and
\* JSONDecodeError.
_load_validation_cache(file) ==
    CASE file.state = "missing" -> [raised |-> NoError, value |-> EmptyDict]
      [] file.state = "unreadable" -> [raised |-> NoError, value |-> EmptyDict]
      [] file.state = "undecodable" -> [raised |-> "UnicodeDecodeError", value |-> EmptyDict]
      [] file.state = "invalid_json" -> [raised |-> NoError, value |-> EmptyDict]
      [] file.state = "json" ->
            IF file.data.json = "object"
            THEN LET validation_data == JGet(file.data.members, "tests_with_semantic_validation")
                 IN [raised |-> NoError,
                     value |-> IF validation_data.json = "object"
                               THEN validation_data.members ELSE EmptyDict]
            ELSE [raised |-> NoError, value |-> EmptyDict]

(***************************************************************************)
(* Pass 1: fixture discovery                                               *)
(***************************************************************************)
_check_fixture_db_commits(ref) ==
    IF NodeAt(ref).facts.db_commit_no_cleanup
    THEN <<Message("pytest-fix-db-commit-no-cleanup", ref, Lineno(ref), <<NodeAt(ref).name>>)>>
    ELSE <<>>

\* the duplicate check left out
AlreadyProcessed_Never(ref, processed) == FALSE

\* "if node_id in self._processed_fixtures: return"
AlreadyProcessed(ref, processed) == id(ref) \in processed

\* st = [graph, processed, msgs]
_process_potential_fixture(st, ref) ==
    LET node == NodeAt(ref) IN
    IF ~is_pytest_fixture(node) THEN st
    ELSE IF AlreadyProcessed(ref, st.processed) THEN st
    ELSE LET decorator_args == get_fixture_decorator_args(node)
             scope == decorator_args[1]
             autouse == decorator_args[2]
             fixture_info == FixtureInfo(node.name, scope, autouse,
                                         get_fixture_dependencies(node),
                                         FileOrUnknown(RootFile(ref)), ref)
         IN [graph |-> GraphAppend(st.graph, node.name, fixture_info),
             processed |-> st.processed \cup {id(ref)},
             msgs |-> st.msgs
                      \o (IF Truthy(autouse)
                          THEN <<Message("pytest-fix-autouse", ref, Lineno(ref), <<>>)>>
                          ELSE <<>>)
                      \o _check_fixture_db_commits(ref)]

\* the function definitions in the body of the i-th top-level node, from
\* the j-th statement on
RECURSIVE NestedLoop(_, _, _, _)
NestedLoop(st, f, i, j) ==
    IF j > Len(files[f][i].body) THEN st
    ELSE IF files[f][i].body[j].type = "FunctionDef"
         THEN NestedLoop(_process_potential_fixture(st, ChildRef(f, i, j)), f, i, j + 1)
         ELSE NestedLoop(st, f, i, j + 1)

\* every function definition of the module taken, nested ones too
RECURSIVE ModuleBodyLoop_Deep(_, _, _)
ModuleBodyLoop_Deep(st, f, i) ==
    IF i > Len(files[f]) THEN st
    ELSE LET top == IF files[f][i].type = "FunctionDef"
                    THEN _process_potential_fixture(st, NodeRef(f, i)) ELSE st
         IN ModuleBodyLoop_Deep(NestedLoop(top, f, i, 1), f, i + 1)

RECURSIVE ModuleBodyLoop(_, _, _)
ModuleBodyLoop(st, f, i) ==
    IF i > Len(files[f]) THEN st
    ELSE IF files[f][i].type = "FunctionDef"
         THEN ModuleBodyLoop(_process_potential_fixture(st, NodeRef(f, i)), f, i + 1)
         ELSE ModuleBodyLoop(st, f, i + 1)

visit_module(f) ==
    LET st == ModuleBodyLoop([graph |-> fixture_graph, processed |-> _processed_fixtures,
                              msgs |-> messages], f, 1)
    IN /\ fixture_graph' = st.graph
       /\ _processed_fixtures' = st.processed
       /\ messages' = st.msgs

(***************************************************************************)
(* Pass 2: test functions                                                  *)
(***************************************************************************)
\* f"{node.root().file}::{node.name}"
TestName(ref) == <<FormatFile(RootFile(ref)), NodeAt(ref).name>>

\* the first declaring file cited twice, however many files declare the name
ShadowedArgs_FirstTwice(fixture_name, definitions) ==
    <<fixture_name, definitions[1].file_path, definitions[1].file_path>>

\* the args of the pytest-fix-shadowed message for the definitions of a name
ShadowedArgs(fixture_name, definitions) ==
    LET fs == MapSeq(LAMBDA info : info.file_path, definitions)
        unique_files == Range(fs)
    IN <<fixture_name, fs[1],
         IF Cardinality(unique_files) > 1 THEN fs[Len(fs)] ELSE fs[1]>>

_check_shadowed_fixture(arg, test_ref) ==
    IF ~HasKey(fixture_graph, arg) THEN <<>>
    ELSE LET definitions == Get(fixture_graph, arg) IN
         IF Len(definitions) > 1
         THEN <<Message("pytest-fix-shadowed", test_ref, Lineno(test_ref),
                        ShadowedArgs(arg, definitions))>>
         ELSE <<>>

\* only the first definition kept, and marked
MarkUsed_DropShadowed(infos, test_name) ==
    <<[infos[1] EXCEPT !.used_by = @ \cup {test_name}]>>

\* the consumer set overwritten instead of extended
MarkUsed_Overwrite(infos, test_name) ==
    [i \in DOMAIN infos |-> [infos[i] EXCEPT !.used_by = {test_name}]]

\* only the first definition marked
MarkUsed_FirstOnly(infos, test_name) ==
    [i \in DOMAIN infos |->
        IF i = 1 THEN [infos[i] EXCEPT !.used_by = @ \cup {test_name}] ELSE infos[i]]

\* "for fixture_info in self.fixture_graph[arg.name]: fixture_info.used_by.add(test_name)"
MarkUsed(infos, test_name) == [i \in DOMAIN infos |-> [infos[i] EXCEPT !.used_by = @ \cup {test_name}]]

\* request skipped like a receiver name
ReceiverNames_WithRequest == {"request", "self", "cls"}

\* "if arg.name in {'self', 'cls'}: continue"
ReceiverNames == {"self", "cls"}

_check_test_function(ref) ==
    LET node == NodeAt(ref)
        test_name == TestName(ref)
        test_file == FileOrUnknown(RootFile(ref))
        fixtures_used == SelectSeq(node.args, LAMBDA a : a \notin ReceiverNames)
    IN IF node.args = <<>>
       THEN UNCHANGED <<fixture_graph, fixture_usage_locations, messages,
                        test_fixture_usage, _test_fixture_params>>
       ELSE /\ fixture_graph' =
                  [i \in DOMAIN fixture_graph |->
                      IF fixture_graph[i].key \in Range(fixtures_used)
                      THEN [fixture_graph[i] EXCEPT !.infos = MarkUsed(@, test_name)]
                      ELSE fixture_graph[i]]
            /\ fixture_usage_locations' = fixture_usage_locations
                  \cup {<<a, test_file>> : a \in Range(fixtures_used)}
            /\ messages' = messages
                  \o Flatten(MapSeq(LAMBDA a : _check_shadowed_fixture(a, ref), fixtures_used))
            /\ test_fixture_usage' = DictSet(test_fixture_usage, test_name, fixtures_used)
            /\ _test_fixture_params' = DictSet(_test_fixture_params, test_name, Range(fixtures_used))

\* the test functions of the model carry no parametrize decorator, so
\* _check_parametrize_antipatterns finds nothing to report
visit_functiondef(ref) ==
    IF is_test_function(NodeAt(ref))
    THEN /\ _in_test_function' = TRUE
         /\ _current_test_node' = ref
         /\ _test_has_assertions' = FALSE
         /\ _test_has_state_assertions' = FALSE
         /\ _test_has_mock_verifications' = FALSE
         /\ _assertion_count' = 0
         /\ _has_shared_state_access' = FALSE
         /\ _check_test_function(ref)
    ELSE UNCHANGED <<_in_test_function, _current_test_node, testFlags, fixture_graph,
                     fixture_usage_locations, messages, test_fixture_usage,
                     _test_fixture_params>>

_get_project_root == getcwd

\* the pytest node id of a test: the file relative to the project root
_get_test_id(ref) ==
    LET file_path == FileOrUnknown(RootFile(ref)) IN
    IF file_path = <<"<unknown>">> THEN <<file_path, NodeAt(ref).name>>
    ELSE <<relpath(file_path, _get_project_root), NodeAt(ref).name>>

\* tasks[test_id] gets validation_type appended unless it is there
_track_semantic_validation_task(tasks, test_id, validation_type) ==
    IF \E i \in DOMAIN tasks : tasks[i].key = test_id
    THEN [i \in DOMAIN tasks |->
            IF tasks[i].key = test_id /\ validation_type \notin Range(tasks[i].types)
            THEN [tasks[i] EXCEPT !.types = Append(@, validation_type)] ELSE tasks[i]]
    ELSE Append(tasks, [key |-> test_id, types |-> <<validation_type>>])

\* one cache-guarded hint of _check_test_semantic_quality.  st = [msgs, tasks,
\* raised]; test_cache.get(kind, {}).get("validated", False) needs both
\* receivers to be dicts: anything else has no get and raises AttributeError
CacheGuardedHint(st, ref, test_cache, kind, msgid) ==
    IF st.raised # NoError THEN st
    ELSE IF test_cache.json # "object" THEN [st EXCEPT !.raised = "AttributeError"]
    ELSE LET entry == JGet(test_cache.members, kind) IN
         IF entry.json # "object" THEN [st EXCEPT !.raised = "AttributeError"]
         ELSE IF "validated" \in DOMAIN entry.members /\ JTruthy(entry.members["validated"])
              THEN st
              ELSE [st EXCEPT
                      !.msgs = Append(@, Message(msgid, ref, Lineno(ref), <<NodeAt(ref).name>>)),
                      !.tasks = _track_semantic_validation_task(@, _get_test_id(ref), kind)]

\* [msgs, tasks, raised] after _check_test_semantic_quality
_check_test_semantic_quality(ref) ==
    LET node == NodeAt(ref)
        test_name == node.name
        no_assert == IF ~_test_has_assertions /\ ~node.facts.has_pytest_raises
                     THEN <<Message("pytest-test-no-assert", ref, Lineno(ref), <<test_name>>)>>
                     ELSE <<>>
        mock_only == IF _test_has_mock_verifications /\ ~_test_has_state_assertions
                     THEN <<Message("pytest-mock-only-verify", ref, Lineno(ref), <<test_name>>)>>
                     ELSE <<>>
        test_id == _get_test_id(ref)
        test_cache == JGet(_validation_cache, test_id)
        st0 == [msgs |-> messages \o no_assert \o mock_only,
                tasks |-> _semantic_validation_tasks, raised |-> NoError]
        st1 == IF ~node.facts.has_bdd_traceability
               THEN CacheGuardedHint(st0, ref, test_cache, "bdd", "pytest-bdd-missing-scenario")
               ELSE st0
    IN IF node.facts.should_suggest_pbt
       THEN CacheGuardedHint(st1, ref, test_cache, "pbt", "pytest-no-property-test-hint")
       ELSE st1

\* "threshold = 3" of _check_assertion_roulette
threshold == 3

_check_assertion_roulette(ref) ==
    IF NodeAt(ref).facts.is_parametrized THEN <<>>
    ELSE IF _assertion_count > threshold
         THEN <<Message("pytest-mnt-assertion-roulette", ref, Lineno(ref), <<_assertion_count>>)>>
         ELSE <<>>

\* an exception that leaves _check_test_semantic_quality leaves the handler
\* too: what was emitted stays, the flags are not reset
leave_functiondef(ref) ==
    IF is_test_function(NodeAt(ref))
    THEN LET st == _check_test_semantic_quality(ref) IN
         IF st.raised # NoError
         THEN /\ messages' = st.msgs
              /\ _semantic_validation_tasks' = st.tasks
              /\ error' = st.raised
              /\ UNCHANGED <<_in_test_function, _current_test_node>>
         ELSE /\ messages' = st.msgs
                   \o _check_assertion_roulette(ref)
                   \o (IF _has_shared_state_access
                       THEN <<Message("pytest-xdist-shared-state", ref, Lineno(ref),
                                      <<NodeAt(ref).name>>)>>
                       ELSE <<>>)
              /\ _semantic_validation_tasks' = st.tasks
              /\ _in_test_function' = FALSE
              /\ _current_test_node' = NoNode
              /\ UNCHANGED error
    ELSE UNCHANGED <<_in_test_function, _current_test_node, messages,
                     _semantic_validation_tasks, error>>

\* the qualified names of the model's calls that end in a mock verification
\* method, and those that are the model's mutating method calls with the
\* name they are made on
MockVerifyCalls == {"m.assert_called"}
MutatingCallTarget == [q \in {"a.append"} |-> "a"]
CwdFunctions == {"os.getcwd", "os.chdir", "pathlib.Path.cwd", "Path.cwd", "getcwd", "chdir"}

\* the messages of _check_fixture_mutation for a mutating method call: one
\* message at the first record of a scope other than function, then return
_check_fixture_mutation(ref) ==
    LET target == MutatingCallTarget[NodeAt(ref).qualname] IN
    IF _current_test_node = NoNode THEN <<>>
    ELSE LET test_name == TestName(_current_test_node) IN
         IF test_name \notin DOMAIN _test_fixture_params THEN <<>>
         ELSE IF target \notin _test_fixture_params[test_name] THEN <<>>
         ELSE IF ~HasKey(fixture_graph, target) THEN <<>>
         ELSE IF \E i \in DOMAIN Get(fixture_graph, target) :
                     Get(fixture_graph, target)[i].scope # "function"
              THEN <<Message("pytest-test-fixture-mutation", ref, Lineno(ref),
                             <<NodeAt(_current_test_node).name>>)>>
              ELSE <<>>

\* the fixtures that count as resource fixtures for an open() call
ResourceFixtures == {"tmp_path", "tmp_path_factory", "tmpdir", "tmpdir_factory"}

\* the diagnostic of visit_call for an open() call
OpenCallMsg(ref) ==
    LET has_resource_fixture ==
            /\ _current_test_node # NoNode
            /\ Range(get_fixture_dependencies(NodeAt(_current_test_node)))
                   \cap ResourceFixtures # {}
    IN IF ~has_resource_fixture
       THEN <<Message("pytest-flk-mystery-guest", ref, Lineno(ref), <<>>)>>
       ELSE <<Message("pytest-flk-io-open", ref, Lineno(ref), <<>>)>>

visit_call(ref) ==
    LET qualname == get_call_qualname(NodeAt(ref)) IN
    IF ~_in_test_function \/ qualname = ""
    THEN UNCHANGED <<_test_has_mock_verifications, messages>>
    ELSE /\ _test_has_mock_verifications' =
               (_test_has_mock_verifications \/ qualname \in MockVerifyCalls)
         /\ messages' = messages
               \o (IF qualname \in DOMAIN MutatingCallTarget
                   THEN _check_fixture_mutation(ref) ELSE <<>>)
               \o (IF qualname \in {"time.sleep", "sleep"}
                   THEN <<Message("pytest-flk-time-sleep", ref, Lineno(ref), <<>>)>>
                   ELSE <<>>)
               \o (IF qualname = "open" THEN OpenCallMsg(ref) ELSE <<>>)
               \o (IF qualname \in CwdFunctions
                   THEN <<Message("pytest-flk-cwd-dependency", ref, Lineno(ref), <<>>)>>
                   ELSE <<>>)

\* the if statements of the model stand in no comprehension and in no
\* pytest.raises block
visit_if(ref) ==
    IF ~_in_test_function THEN UNCHANGED messages
    ELSE messages' = Append(messages, Message("pytest-mnt-test-logic", ref, Lineno(ref), <<>>))

\* the assert statements of the model compare no constant and wrap no
\* comparison, so the two assert checks find nothing to report
visit_assert(ref) ==
    IF ~_in_test_function
    THEN UNCHANGED <<_test_has_assertions, _test_has_state_assertions, _assertion_count>>
    ELSE /\ _test_has_assertions' = TRUE
         /\ _test_has_state_assertions' = TRUE
         /\ _assertion_count' = _assertion_count + 1

(***************************************************************************)
(* Finalization: fixture graph validation                                  *)
(***************************************************************************)
\* the dependencies up to the first one that has no record
RECURSIVE UpToUnresolved(_, _)
UpToUnresolved(graph, deps) ==
    IF deps = <<>> THEN <<>>
    ELSE IF ~HasKey(graph, Head(deps)) THEN <<>>
    ELSE <<Head(deps)>> \o UpToUnresolved(graph, Tail(deps))

\* the loop over the dependencies left at the first one that has no record
ScopeDependencyMsgs_StopAtUnresolved(graph, info) ==
    Flatten(MapSeq(
        LAMBDA dep_name :
            IF compare_fixture_scopes(info.scope, Get(graph, dep_name)[1].scope) > 0
            THEN <<Message("pytest-fix-invalid-scope", info.node, Lineno(info.node),
                           <<info.name, info.scope, dep_name, Get(graph, dep_name)[1].scope>>)>>
            ELSE <<>>,
        UpToUnresolved(graph, info.dependencies)))

\* the messages of one record in _check_fixture_scope_dependencies
ScopeDependencyMsgs(graph, info) ==
    Flatten(MapSeq(
        LAMBDA dep_name :
            IF ~HasKey(graph, dep_name) THEN <<>>
            ELSE LET dep_info == Get(graph, dep_name)[1]
                     dep_scope == dep_info.scope
                 IN IF compare_fixture_scopes(info.scope, dep_scope) > 0
                    THEN <<Message("pytest-fix-invalid-scope", info.node, Lineno(info.node),
                                   <<info.name, info.scope, dep_name, dep_scope>>)>>
                    ELSE <<>>,
        info.dependencies))

_check_fixture_scope_dependencies(graph) ==
    Flatten(MapSeq(LAMBDA info : ScopeDependencyMsgs(graph, info), AllInfos(graph)))

\* autouse fixtures not skipped
SkipAutouse_Never(info) == FALSE

\* "if fixture_info.autouse: continue"
SkipAutouse(info) == Truthy(info.autouse)

\* is_used after the loop over self.fixture_graph.values()
IsUsed(graph, info) ==
    \/ Cardinality(info.used_by) > 0
    \/ \E i \in DOMAIN AllInfos(graph) :
           info.name \in Range(AllInfos(graph)[i].dependencies)

_check_unused_fixtures(graph) ==
    Flatten(MapSeq(
        LAMBDA info :
            IF SkipAutouse(info) THEN <<>>
            ELSE IF ~IsUsed(graph, info)
                 THEN <<Message("pytest-fix-unused", info.node, Lineno(info.node), <<info.name>>)>>
                 ELSE <<>>,
        AllInfos(graph)))

MutablePytypes == {"builtins.list", "builtins.dict", "builtins.set"}

_infer_mutable_type(value) ==
    \E t \in value.pytypes : t # "Uninferable" /\ t \in MutablePytypes

_is_mutable_return(value) ==
    \/ value.type \in {"List", "Dict", "Set"}
    \/ /\ value.type = "Call"
       /\ \/ get_call_qualname(value) \in {"list", "dict", "set"}
          \/ _infer_mutable_type(value)

\* "for node in fixture_info.node.nodes_of_class(nodes.Return)" with its break
RECURSIVE ReturnLoop(_, _)
ReturnLoop(returns, info) ==
    IF returns = <<>> THEN <<>>
    ELSE IF Head(returns).type # "None" /\ _is_mutable_return(Head(returns))
         THEN <<Message("pytest-fix-stateful-session", info.node, Lineno(info.node),
                        <<info.name>>)>>
         ELSE ReturnLoop(Tail(returns), info)

\* every scope broader than function treated as session
SkipNotSession_OnlyFunction(info) == info.scope = "function"

\* "if fixture_info.scope != 'session': continue"
SkipNotSession(info) == info.scope # "session"

_check_stateful_session_fixtures(graph) ==
    Flatten(MapSeq(
        LAMBDA info :
            IF SkipNotSession(info) THEN <<>>
            ELSE ReturnLoop(NodeAt(info.node).returns, info),
        AllInfos(graph)))

_check_fixtures_without_contracts(graph) ==
    Flatten(MapSeq(
        LAMBDA info :
            IF NodeAt(info.node).facts.has_contract THEN <<>>
            ELSE IF NodeAt(info.node).facts.is_complex
                 THEN <<Message("pytest-no-contract-hint", info.node, Lineno(info.node),
                                <<info.name>>)>>
                 ELSE <<>>,
        AllInfos(graph)))

UsageLocations(name) == {p[2] : p \in {q \in fixture_usage_locations : q[1] = name}}

OverlyBroadMsg(info, scope_context, suggested_scope) ==
    <<Message("pytest-fix-overly-broad-scope", info.node, Lineno(info.node),
              <<info.name, info.scope, scope_context, suggested_scope>>)>>

_check_overly_broad_scopes(graph) ==
    Flatten(MapSeq(
        LAMBDA info :
            IF info.scope = "function" THEN <<>>
            ELSE IF UsageLocations(info.name) = {} THEN <<>>
            ELSE IF info.scope = "session"
                 THEN IF Cardinality(UsageLocations(info.name)) = 1
                      THEN OverlyBroadMsg(info, "module", "module") ELSE <<>>
            ELSE IF info.scope \in {"module", "class"}
                 THEN IF Cardinality(info.used_by) = 1
                      THEN OverlyBroadMsg(info, "test", "function") ELSE <<>>
            ELSE <<>>,
        AllInfos(graph)))

TmpPathFixtures == {"tmp_path", "tmp_path_factory", "tmpdir", "tmpdir_factory"}

_check_xdist_fixture_io(graph) ==
    Flatten(MapSeq(
        LAMBDA info :
            IF /\ NodeAt(info.node).facts.has_file_io
               /\ Range(info.dependencies) \cap TmpPathFixtures = {}
            THEN <<Message("pytest-xdist-fixture-io", info.node, Lineno(info.node),
                           <<info.name>>)>>
            ELSE <<>>,
        AllInfos(graph)))

\* .pytest_deep_analysis_tasks.json: missing, or holding the JSON object
\* that json.dumps made of a task dict (string keys, lists of strings, which
\* json.loads gives back as they were, in order)
NoTaskFile == [exists |-> FALSE, data |-> <<>>]
TaskFile(tasks) == [exists |-> TRUE, data |-> tasks]

\* SemanticValidationPlugin._load_validation_tasks on the file as it stands
_load_validation_tasks(file) == IF ~file.exists THEN <<>> ELSE file.data

\* the task file is written first, whatever the graph holds, and only if
\* there is a task; the working directory is taken to be writable
close ==
    /\ task_file' = IF _semantic_validation_tasks # <<>>
                    THEN TaskFile(_semantic_validation_tasks) ELSE task_file
    /\ IF fixture_graph = <<>>
       THEN UNCHANGED messages
       ELSE messages' = messages
            \o _check_fixture_scope_dependencies(fixture_graph)
            \o _check_unused_fixtures(fixture_graph)
            \o _check_stateful_session_fixtures(fixture_graph)
            \o _check_fixtures_without_contracts(fixture_graph)
            \o _check_overly_broad_scopes(fixture_graph)
            \o _check_xdist_fixture_io(fixture_graph)

(***************************************************************************)
(* The host: pylint's walker, or a harness calling the checker directly    *)
(***************************************************************************)
TotalVisits == visits["a.py"] + visits["b.py"]

\* the host goes on only while no exception has left a handler
Running == error = NoError /\ replay.run = 0

\* checker.visit_module(node) called by the harness right before it walks
\* the same module (tests/test_harness/base.py)
HostVisitModule(f) ==
    /\ Running
    /\ cur = NoFile /\ pending = NoFile
    /\ TotalVisits < MaxVisits
    /\ visit_module(f)
    /\ visits' = [visits EXCEPT ![f] = @ + 1]
    /\ pending' = f
    /\ UNCHANGED <<inputVars, xdist, test_fixture_usage, _test_fixture_params,
                   fixture_usage_locations, _in_test_function, _current_test_node,
                   testFlags, feedbackVars, error, cur, pos, sub, phase, closes, replay>>

\* the walker enters a module: visit_module, then its children in order
HostWalkModule(f) ==
    /\ Running
    /\ cur = NoFile /\ pending \in {NoFile, f}
    /\ TotalVisits < MaxVisits
    /\ visit_module(f)
    /\ visits' = [visits EXCEPT ![f] = @ + 1]
    /\ cur' = f /\ pos' = 1 /\ sub' = 0 /\ phase' = "visit" /\ pending' = NoFile
    /\ UNCHANGED <<inputVars, xdist, test_fixture_usage, _test_fixture_params,
                   fixture_usage_locations, _in_test_function, _current_test_node,
                   testFlags, feedbackVars, error, closes, replay>>

\* the walker is at the top-level node pos, which it has not entered
AtTopLevel(type) ==
    /\ error = NoError
    /\ cur # NoFile /\ phase = "visit" /\ pos <= Len(files[cur])
    /\ files[cur][pos].type = type

\* the walker is in the body of the top-level node pos, at a statement of
\* the given type
AtStatement(type) ==
    /\ error = NoError
    /\ cur # NoFile /\ phase = "body" /\ sub <= Len(files[cur][pos].body)
    /\ files[cur][pos].body[sub].type = type

\* the walker has been through the body of the top-level node pos
BodyDone == cur # NoFile /\ phase = "body" /\ sub > Len(files[cur][pos].body)

HostVisitFunctionDef ==
    /\ AtTopLevel("FunctionDef")
    /\ visit_functiondef(NodeRef(cur, pos))
    /\ phase' = "body" /\ sub' = 1
    /\ UNCHANGED <<inputVars, xdist, _processed_fixtures, feedbackVars, error, cur, pos,
                   pending, visits, closes, replay>>

HostLeaveFunctionDef ==
    /\ error = NoError
    /\ BodyDone /\ files[cur][pos].type = "FunctionDef"
    /\ leave_functiondef(NodeRef(cur, pos))
    /\ phase' = "visit" /\ pos' = pos + 1 /\ sub' = 0
    /\ UNCHANGED <<inputVars, xdist, fixture_graph, test_fixture_usage, _test_fixture_params,
                   fixture_usage_locations, _processed_fixtures, testFlags,
                   _validation_cache, task_file, cur, pending, visits, closes, replay>>

\* a class or an if statement at the top level: the checker has no handler
\* for a class, and visit_if for an if statement
HostEnterBlock ==
    /\ error = NoError
    /\ cur # NoFile /\ phase = "visit" /\ pos <= Len(files[cur])
    /\ files[cur][pos].type \in {"ClassDef", "If"}
    /\ IF files[cur][pos].type = "If"
       THEN visit_if(NodeRef(cur, pos)) ELSE UNCHANGED messages
    /\ phase' = "body" /\ sub' = 1
    /\ UNCHANGED <<inputVars, xdist, fixture_graph, test_fixture_usage, _test_fixture_params,
                   fixture_usage_locations, _processed_fixtures, _in_test_function,
                   _current_test_node, testFlags, feedbackVars, error,
                   cur, pos, pending, visits, closes, replay>>

HostLeaveBlock ==
    /\ error = NoError
    /\ BodyDone /\ files[cur][pos].type \in {"ClassDef", "If"}
    /\ phase' = "visit" /\ pos' = pos + 1 /\ sub' = 0
    /\ UNCHANGED <<inputVars, xdist, fixture_graph, test_fixture_usage, _test_fixture_params,
                   fixture_usage_locations, _processed_fixtures, _in_test_function,
                   _current_test_node, testFlags, feedbackVars, messages, error,
                   cur, pending, visits, closes, replay>>

HostVisitCall ==
    /\ AtStatement("Call")
    /\ visit_call(ChildRef(cur, pos, sub))
    /\ sub' = sub + 1
    /\ UNCHANGED <<inputVars, xdist, fixture_graph, test_fixture_usage, _test_fixture_params,
                   fixture_usage_locations, _processed_fixtures, _in_test_function,
                   _current_test_node, _test_has_assertions, _test_has_state_assertions,
                   _assertion_count, _has_shared_state_access, feedbackVars, error,
                   cur, pos, phase, pending, visits, closes, replay>>

HostVisitAssert ==
    /\ AtStatement("Assert")
    /\ visit_assert(ChildRef(cur, pos, sub))
    /\ sub' = sub + 1
    /\ UNCHANGED <<inputVars, xdist, fixture_graph, test_fixture_usage, _test_fixture_params,
                   fixture_usage_locations, _processed_fixtures, _in_test_function,
                   _current_test_node, _test_has_mock_verifications,
                   _has_shared_state_access, feedbackVars, messages, error,
                   cur, pos, phase, pending, visits, closes, replay>>

\* a function definition in the body of a top-level node
HostVisitNestedFunctionDef ==
    /\ AtStatement("FunctionDef")
    /\ visit_functiondef(ChildRef(cur, pos, sub))
    /\ phase' = "nested"
    /\ UNCHANGED <<inputVars, xdist, _processed_fixtures, feedbackVars, error, cur, pos, sub,
                   pending, visits, closes, replay>>

HostLeaveNestedFunctionDef ==
    /\ error = NoError
    /\ cur # NoFile /\ phase = "nested"
    /\ leave_functiondef(ChildRef(cur, pos, sub))
    /\ phase' = "body" /\ sub' = sub + 1
    /\ UNCHANGED <<inputVars, xdist, fixture_graph, test_fixture_usage, _test_fixture_params,
                   fixture_usage_locations, _processed_fixtures, testFlags,
                   _validation_cache, task_file, cur, pos, pending, visits, closes, replay>>

HostLeaveModule ==
    /\ error = NoError
    /\ cur # NoFile /\ phase = "visit" /\ pos > Len(files[cur])
    /\ cur' = NoFile /\ pos' = 0
    /\ UNCHANGED <<inputVars, xdist, fixture_graph, test_fixture_usage, _test_fixture_params,
                   fixture_usage_locations, _processed_fixtures, _in_test_function,
                   _current_test_node, testFlags, feedbackVars, messages, error,
                   sub, phase, pending, visits, closes, replay>>

HostClose ==
    /\ Running
    /\ cur = NoFile /\ pending = NoFile
    /\ closes < MaxCloses
    /\ close
    /\ closes' = closes + 1
    /\ UNCHANGED <<inputVars, xdist, fixture_graph, test_fixture_usage, _test_fixture_params,
                   fixture_usage_locations, _processed_fixtures, _in_test_function,
                   _current_test_node, testFlags, _semantic_validation_tasks,
                   _validation_cache, error, cur, pos, sub, phase, pending, visits, replay>>

\* projects whose functions, classes and ifs have empty bodies
Next ==
    \/ \E f \in Paths : HostVisitModule(f)
    \/ \E f \in Paths : HostWalkModule(f)
    \/ HostVisitFunctionDef
    \/ HostLeaveFunctionDef
    \/ HostLeaveModule
    \/ HostClose

\* projects with statements in the bodies
NextBody ==
    \/ Next
    \/ HostEnterBlock
    \/ HostLeaveBlock
    \/ HostVisitCall
    \/ HostVisitAssert
    \/ HostVisitNestedFunctionDef
    \/ HostLeaveNestedFunctionDef

\* projects whose statements stand in function bodies only
NextTestBody ==
    \/ Next
    \/ HostVisitCall
    \/ HostVisitAssert
    \/ HostVisitNestedFunctionDef
    \/ HostLeaveNestedFunctionDef

\* PytestDeepAnalysisChecker.__init__ on a given project
\* an exception that leaves _load_validation_cache leaves __init__: there is
\* no checker, only the error
InitChecker ==
    /\ fixture_graph = <<>>
    /\ test_fixture_usage = EmptyDict
    /\ _test_fixture_params = EmptyDict
    /\ fixture_usage_locations = {}
    /\ _processed_fixtures = {}
    /\ _in_test_function = FALSE
    /\ _current_test_node = NoNode
    /\ _test_has_assertions = FALSE
    /\ _test_has_state_assertions = FALSE
    /\ _test_has_mock_verifications = FALSE
    /\ _assertion_count = 0
    /\ _has_shared_state_access = FALSE
    /\ _semantic_validation_tasks = <<>>
    /\ _validation_cache = _load_validation_cache(cache_file).value
    /\ error = _load_validation_cache(cache_file).raised
    /\ messages = <<>>
    /\ cur = NoFile /\ pos = 0 /\ sub = 0 /\ phase = "visit" /\ pending = NoFile
    /\ visits = [f \in Paths |-> 0]
    /\ closes = 0

\* modules whose file attribute is their path relative to the working directory
RelativeFiles == [f \in Paths |-> <<f>>]

\* no worker has saved a result and nothing is merged
NoMerge == [fixtures |-> <<>>, test_usage |-> <<>>, done |-> FALSE]
NoXdist == [graphs |-> <<>>, merged |-> NoMerge]

\* a host that runs the checker once
NoReplay == [run |-> 0, order |-> <<>>, next |-> 0, first |-> {}]

(***************************************************************************)
(* A host that analyses the same files twice, in the same order, each time *)
(* with a new checker                                                      *)
(***************************************************************************)
\* the walker enters the next module of the script
ReplayWalkModule ==
    /\ error = NoError /\ replay.run \in {1, 2}
    /\ cur = NoFile /\ closes = 0
    /\ replay.next <= Len(replay.order)
    /\ visit_module(replay.order[replay.next])
    /\ visits' = [visits EXCEPT ![replay.order[replay.next]] = @ + 1]
    /\ cur' = replay.order[replay.next] /\ pos' = 1 /\ sub' = 0 /\ phase' = "visit"
    /\ replay' = [replay EXCEPT !.next = @ + 1]
    /\ UNCHANGED <<inputVars, xdist, test_fixture_usage, _test_fixture_params,
                   fixture_usage_locations, _in_test_function, _current_test_node,
                   testFlags, feedbackVars, error, pending, closes>>

\* close() once the script is through
ReplayClose ==
    /\ error = NoError /\ replay.run \in {1, 2}
    /\ cur = NoFile /\ closes = 0
    /\ replay.next > Len(replay.order)
    /\ close
    /\ closes' = 1
    /\ UNCHANGED <<inputVars, xdist, fixture_graph, test_fixture_usage, _test_fixture_params,
                   fixture_usage_locations, _processed_fixtures, _in_test_function,
                   _current_test_node, testFlags, _semantic_validation_tasks,
                   _validation_cache, error, cur, pos, sub, phase, pending, visits, replay>>

\* the set of processed nodes kept from the checker before
FreshProcessed_Shared == _processed_fixtures

\* "self._processed_fixtures: Set[int] = set()"
FreshProcessed == {}

\* the second run: __init__ again, on the same parsed modules and the same
\* files on disk; the diagnostics of the first run are set aside
ReplayFreshChecker ==
    /\ error = NoError /\ replay.run = 1 /\ closes = 1
    /\ fixture_graph' = <<>>
    /\ test_fixture_usage' = EmptyDict
    /\ _test_fixture_params' = EmptyDict
    /\ fixture_usage_locations' = {}
    /\ _processed_fixtures' = FreshProcessed
    /\ _in_test_function' = FALSE
    /\ _current_test_node' = NoNode
    /\ _test_has_assertions' = FALSE
    /\ _test_has_state_assertions' = FALSE
    /\ _test_has_mock_verifications' = FALSE
    /\ _assertion_count' = 0
    /\ _has_shared_state_access' = FALSE
    /\ _semantic_validation_tasks' = <<>>
    /\ _validation_cache' = _load_validation_cache(cache_file).value
    /\ error' = _load_validation_cache(cache_file).raised
    /\ messages' = <<>>
    /\ visits' = [f \in Paths |-> 0]
    /\ closes' = 0
    /\ replay' = [replay EXCEPT !.run = 2, !.next = 1, !.first = Range(messages)]
    /\ UNCHANGED <<inputVars, xdist, task_file, cur, pos, sub, phase, pending>>

NextReplay ==
    \/ ReplayWalkModule
    \/ HostVisitFunctionDef
    \/ HostLeaveFunctionDef
    \/ HostLeaveModule
    \/ ReplayClose
    \/ ReplayFreshChecker

(***************************************************************************)
(* xdist_support.py: worker results and their merge.  A dict of a saved    *)
(* result is the sequence of its [key, value] items in insertion order.    *)
(***************************************************************************)
DHas(d, k) == \E i \in DOMAIN d : d[i].key = k
DGet(d, k) == d[CHOOSE i \in DOMAIN d : d[i].key = k].value
\* d[k] = v
DPut(d, k, v) ==
    IF DHas(d, k)
    THEN [i \in DOMAIN d |-> IF d[i].key = k THEN [key |-> k, value |-> v] ELSE d[i]]
    ELSE Append(d, [key |-> k, value |-> v])

\* list(a_set): the elements in an order the language does not fix; the
\* properties below compare such lists as sets
RECURSIVE ListOfSet(_)
ListOfSet(S) ==
    IF S = {} THEN <<>>
    ELSE LET x == CHOOSE y \in S : TRUE IN <<x>> \o ListOfSet(S \ {x})

\* the list of the later graph taken, the earlier one dropped
UnionOfLists_Later(existing, new) == new

\* list(set(existing) | set(new))
UnionOfLists(existing, new) == ListOfSet(Range(existing) \cup Range(new))

\* "for name, info in graph.get('fixtures', {}).items()"
RECURSIVE MergeFixturesLoop(_, _)
MergeFixturesLoop(merged_fixtures, items) ==
    IF items = <<>> THEN merged_fixtures
    ELSE LET name == Head(items).key
             info == Head(items).value
         IN MergeFixturesLoop(
                IF ~DHas(merged_fixtures, name)
                THEN DPut(merged_fixtures, name, info)
                ELSE DPut(merged_fixtures, name,
                          [DGet(merged_fixtures, name) EXCEPT
                              !.used_by = UnionOfLists(@, info.used_by)]),
                Tail(items))

\* "for test_name, fixtures in graph.get('test_usage', {}).items()"
RECURSIVE MergeTestUsageLoop(_, _)
MergeTestUsageLoop(merged_test_usage, items) ==
    IF items = <<>> THEN merged_test_usage
    ELSE LET test_name == Head(items).key
             fixtures == Head(items).value
         IN MergeTestUsageLoop(
                IF ~DHas(merged_test_usage, test_name)
                THEN DPut(merged_test_usage, test_name, fixtures)
                ELSE DPut(merged_test_usage, test_name,
                          UnionOfLists(DGet(merged_test_usage, test_name), fixtures)),
                Tail(items))

\* "for graph in graphs"
RECURSIVE MergeGraphsLoop(_, _)
MergeGraphsLoop(acc, graphs) ==
    IF graphs = <<>> THEN acc
    ELSE MergeGraphsLoop(
             [acc EXCEPT !.fixtures = MergeFixturesLoop(@, Head(graphs).fixtures),
                         !.test_usage = MergeTestUsageLoop(@, Head(graphs).test_usage)],
             Tail(graphs))

merge_fixture_graphs(graphs) ==
    MergeGraphsLoop([fixtures |-> <<>>, test_usage |-> <<>>, done |-> TRUE], graphs)

\* [raised, value].  The loop hands every value of fixture_graph, which is
\* the list of the records of a name, to serialize_fixture_info, whose
\* first attribute access (fixture_info.name) a list does not have: with
\* one name in the graph the call raises AttributeError.
serialize_fixture_graph(graph, usage) ==
    IF graph # <<>>
    THEN [raised |-> "AttributeError", value |-> [fixtures |-> <<>>, test_usage |-> <<>>]]
    ELSE [raised |-> NoError,
          value |-> [fixtures |-> <<>>,
                     test_usage |-> [i \in DOMAIN ListOfSet(DOMAIN usage) |->
                                       [key |-> ListOfSet(DOMAIN usage)[i],
                                        value |-> usage[ListOfSet(DOMAIN usage)[i]]]]]]

\* XdistCoordinator.save_worker_results at the end of a worker's run; the
\* next worker is a new process with a new checker
SaveWorkerResults ==
    /\ Running
    /\ cur = NoFile /\ pending = NoFile
    /\ ~xdist.merged.done /\ Len(xdist.graphs) < MaxWorkers
    /\ LET data == serialize_fixture_graph(fixture_graph, test_fixture_usage) IN
       IF data.raised # NoError
       THEN /\ error' = data.raised
            /\ UNCHANGED <<xdist, fixture_graph, test_fixture_usage, _test_fixture_params,
                           fixture_usage_locations, _processed_fixtures, _in_test_function,
                           _current_test_node, testFlags, _semantic_validation_tasks,
                           _validation_cache, messages>>
       ELSE /\ xdist' = [xdist EXCEPT !.graphs = Append(@, data.value)]
            /\ fixture_graph' = <<>>
            /\ test_fixture_usage' = EmptyDict
            /\ _test_fixture_params' = EmptyDict
            /\ fixture_usage_locations' = {}
            /\ _processed_fixtures' = {}
            /\ _in_test_function' = FALSE
            /\ _current_test_node' = NoNode
            /\ _test_has_assertions' = FALSE
            /\ _test_has_state_assertions' = FALSE
            /\ _test_has_mock_verifications' = FALSE
            /\ _assertion_count' = 0
            /\ _has_shared_state_access' = FALSE
            /\ _semantic_validation_tasks' = <<>>
            /\ _validation_cache' = _load_validation_cache(cache_file).value
            /\ messages' = <<>>
            /\ UNCHANGED error
    /\ UNCHANGED <<inputVars, task_file, cur, pos, sub, phase, pending, visits, closes, replay>>

\* XdistCoordinator.merge_all_results, once every worker has saved
MergeAllResults ==
    /\ Running
    /\ cur = NoFile /\ pending = NoFile
    /\ fixture_graph = <<>> /\ DOMAIN test_fixture_usage = {}
    /\ ~xdist.merged.done
    /\ xdist' = [xdist EXCEPT !.merged = merge_fixture_graphs(xdist.graphs)]
    /\ UNCHANGED <<inputVars, fixture_graph, test_fixture_usage, _test_fixture_params,
                   fixture_usage_locations, _processed_fixtures, _in_test_function,
                   _current_test_node, testFlags, feedbackVars, messages, error,
                   cur, pos, sub, phase, pending, visits, closes, replay>>

\* workers that analyse modules and save, then the merge
NextXdist ==
    \/ \E f \in Paths : HostVisitModule(f)
    \/ \E f \in Paths : HostWalkModule(f)
    \/ HostVisitFunctionDef
    \/ HostLeaveFunctionDef
    \/ HostLeaveModule
    \/ SaveWorkerResults
    \/ MergeAllResults

\* the merge alone, on worker results read from disk
NextMerge == MergeAllResults

(***************************************************************************)
(* Projects: the inputs of a run                                           *)
(***************************************************************************)
\* every way to lay sequences of at most n declarations of the given kinds
\* over the two files
Projects(kinds, n) ==
    UNION {{[f \in Paths |-> IF f = "a.py" THEN SubSeq(s, 1, k) ELSE SubSeq(s, k + 1, Len(s))]
               : k \in 0..Len(s)} : s \in SeqsUpTo(kinds, n)}

PlainFixture(name, args) == FunctionDef(name, <<AttrDecorator>>, args, <<>>)
Test(name, args) == FunctionDef(name, <<>>, args, <<>>)

\* usage family: plain, autouse, depending and self-depending fixtures, a test
UsageKinds ==
    {PlainFixture("a", <<>>),
     FunctionDef("a", <<CallDecorator(<<Keyword("autouse", "True")>>)>>, <<>>, <<>>),
     PlainFixture("b", <<"a">>),
     PlainFixture("a", <<"a">>),
     Test("test_one", <<"a">>)}

\* shadowing family: redeclared fixtures, tests in and outside a class style
ShadowKinds ==
    {PlainFixture("a", <<>>),
     PlainFixture("self", <<>>),
     Test("test_one", <<"self", "a">>),
     Test("test_two", <<"a">>)}

ScopeValues == ScopeNames \cup {"invalid"}

ScopedFixture(name, scope, args, returns) ==
    FunctionDef(name, <<CallDecorator(<<Keyword("scope", scope)>>)>>, args, returns)

\* scope family: r depends on d (declared 0..MaxShadowed times) and on names
\* that are not fixtures of the project
ScopeProjects ==
    {[f \in Paths |->
        IF f = "a.py" THEN <<ScopedFixture("r", rs, <<"request", "d", "zz">>, <<>>)>>
        ELSE MapSeq(LAMBDA ds : ScopedFixture("d", ds, <<>>, <<>>), dss)]
        : rs \in ScopeValues, dss \in SeqsUpTo(ScopeValues, MaxShadowed)}

\* autouse family: fixtures a and b with the autouse keyword true, false or
\* absent, with and without a session scope
AutouseKinds ==
    {PlainFixture("a", <<>>),
     FunctionDef("a", <<CallDecorator(<<>>)>>, <<>>, <<>>),
     FunctionDef("a", <<CallDecorator(<<Keyword("autouse", "True")>>)>>, <<>>, <<>>),
     FunctionDef("b", <<CallDecorator(<<Keyword("autouse", "False")>>)>>, <<>>, <<>>),
     FunctionDef("b", <<CallDecorator(<<Keyword("scope", "session"),
                                        Keyword("autouse", "True")>>)>>, <<>>, <<>>)}

\* unresolved family: fixtures that depend on zz, which no file declares,
\* before, after or instead of the declared d
UnresolvedKinds ==
    {ScopedFixture("r", "session", <<"zz", "d">>, <<>>),
     ScopedFixture("r", "session", <<"d", "zz">>, <<>>),
     PlainFixture("d", <<"zz">>),
     PlainFixture("d", <<>>),
     ScopedFixture("q", "module", <<"d">>, <<>>)}

\* cache family: one test in a.py without a scenario marker, with one, or
\* with a parametrize list long enough for the property-test hint; one test
\* in b.py
CacheTests ==
    {Test("test_one", <<>>),
     [Test("test_one", <<>>) EXCEPT !.facts.has_bdd_traceability = TRUE],
     [Test("test_one", <<>>) EXCEPT !.facts.should_suggest_pbt = TRUE,
                                    !.facts.is_parametrized = TRUE]}

CacheProjects ==
    {[f \in Paths |-> IF f = "a.py" THEN <<t>> ELSE <<Test("test_two", <<>>)>>] : t \in CacheTests}

\* {"tests_with_semantic_validation": section}
WithSection(section) ==
    JsonCacheFile(JObj([k \in {"tests_with_semantic_validation"} |-> section]))

\* {"tests_with_semantic_validation": {"a.py::test_one": entry}}
WithEntry(entry) == WithSection(JObj([k \in {<<<<"a.py">>, "test_one">>} |-> entry]))

\* the per-test entry {"bdd": value, "pbt": value}
Heuristics(value) == JObj([k \in {"bdd", "pbt"} |-> value])

\* the per-heuristic entry {"validated": value}
Validated(value) == JObj([k \in {"validated"} |-> value])

\* every way the cache file goes wrong, and the well-formed caches: nothing
\* validated, both heuristics validated or refused, one of them validated
CacheFiles ==
    {NoCacheFile, UnreadableCacheFile, UndecodableCacheFile, InvalidJsonCacheFile,
     JsonCacheFile(JArr), JsonCacheFile(JObj(EmptyDict)),
     WithSection(JArr), WithSection(JNull),
     WithEntry(JArr), WithEntry(JStr), WithEntry(JNull),
     WithEntry(Heuristics(JTrue)), WithEntry(Heuristics(JArr)),
     WithEntry(Heuristics(JObj(EmptyDict))),
     WithEntry(Heuristics(Validated(JTrue))),
     WithEntry(Heuristics(Validated(JFalse))),
     WithEntry(JObj([k \in {"bdd"} |-> Validated(JTrue)])),
     WithEntry(JObj([k \in {"pbt"} |-> Validated(JTrue)]))}

\* task-file family: the cache is missing or validates both heuristics of
\* a.py::test_one; the working directory holds no task file, or the one an
\* earlier run wrote for a test that is gone or for a.py::test_one
TaskRunCacheFiles == {NoCacheFile, WithEntry(Heuristics(Validated(JTrue)))}

EarlierTaskFiles ==
    {NoTaskFile,
     TaskFile(<<[key |-> <<<<"a.py">>, "test_old">>, types |-> <<"bdd">>]>>),
     TaskFile(<<[key |-> <<<<"a.py">>, "test_one">>, types |-> <<"bdd", "pbt">>]>>)}

\* body family: a.py holds one test (with or without tmp_path), helper,
\* fixture, class or if whose body is any sequence of open() calls, assert
\* statements and fixture-decorated function definitions; b.py holds a
\* helper that calls open()
StatementKinds == {Call("open"), AssertStmt, PlainFixture("inner", <<>>)}

BodyOwners ==
    {Test("test_one", <<>>), Test("test_one", <<"tmp_path">>),
     FunctionDef("load_config", <<>>, <<>>, <<>>), PlainFixture("a", <<>>),
     ClassDef("TestC", <<>>), If(<<>>)}

BodyProjects ==
    {[f \in Paths |->
        IF f = "a.py" THEN <<WithBody(owner, body)>>
        ELSE <<WithBody(FunctionDef("load_config", <<>>, <<>>, <<>>), <<Call("open")>>)>>]
        : owner \in BodyOwners, body \in SeqsUpTo(StatementKinds, MaxBody)}

\* parameter family: a.py declares fixture a and a test with any list of at
\* most MaxParams parameters among the receiver names, request, the declared
\* a and the undeclared zz; b.py holds a test that takes zz and a
ParamNames == {"self", "cls", "request", "a", "zz"}

ParamProjects ==
    {[f \in Paths |->
        IF f = "a.py" THEN <<PlainFixture("a", <<>>), Test("test_one", args)>>
        ELSE <<Test("test_two", <<"zz", "a">>)>>]
        : args \in SeqsUpTo(ParamNames, MaxParams)}

\* merge family: worker results that hold fixture a as declared in a.py or
\* as declared in b.py, with no, one or two consumers, perhaps fixture b,
\* and perhaps the usage list of test t1
SavedInfo(name, scope, file_path, used_by) ==
    [name |-> name, scope |-> scope, autouse |-> "False", dependencies |-> <<>>,
     file_path |-> file_path, used_by |-> used_by]

SavedFixtures ==
    {fa \o fb :
        fa \in {<<>>} \cup
               {<<[key |-> "a", value |-> SavedInfo("a", d[1], d[2], ub)]>> :
                   d \in {<<"function", <<"a.py">>>>, <<"session", <<"b.py">>>>},
                   ub \in {<<>>, <<"t1">>, <<"t2", "t1">>}},
        fb \in {<<>>, <<[key |-> "b", value |-> SavedInfo("b", "module", <<"b.py">>, <<"t1">>)]>>}}

SavedTestUsage ==
    {<<>>} \cup {<<[key |-> "t1", value |-> fixtures]>> : fixtures \in {<<"a">>, <<"b", "a">>}}

WorkerGraphs ==
    {[fixtures |-> fs, test_usage |-> tu] : fs \in SavedFixtures, tu \in SavedTestUsage}

\* test-body family: a.py declares fixture a (function or module scope) and
\* a test taking a whose body is any sequence of a.append() calls, open()
\* calls, assert statements and nested function definitions named test_two;
\* b.py declares a session-scoped a.  The parser gives both modules a file
\* attribute of the same kind: relative, absolute under the working
\* directory, absolute elsewhere, or none.
TestStatementKinds ==
    {Call("a.append"), Call("open"), AssertStmt, Test("test_two", <<"a">>)}

TestBodyProjects ==
    {[f \in Paths |->
        IF f = "a.py"
        THEN <<ScopedFixture("a", sc, <<>>, <<>>), WithBody(Test("test_one", <<"a">>), body)>>
        ELSE <<ScopedFixture("a", "session", <<>>, <<>>)>>]
        : sc \in {"function", "module"}, body \in SeqsUpTo(TestStatementKinds, MaxBody)}

FileKinds ==
    {[f \in Paths |-> <<f>>],
     [f \in Paths |-> <<"/", "proj", f>>],
     [f \in Paths |-> <<"/", "other", f>>],
     [f \in Paths |-> NoneFile]}

ReturnKinds ==
    {RetList, RetDict, RetSet, RetTuple, RetBare,
     RetCall("dict", {}),
     RetCall("make", {"builtins.list"}),
     RetCall("make", {"Uninferable"}),
     RetCall("make", {"builtins.tuple"})}

\* stateful family: one fixture of any scope with 0..MaxReturns returns, one test
StatefulProjects ==
    {[f \in Paths |->
        IF f = "a.py" THEN <<ScopedFixture("s", sc, <<>>, rets)>>
        ELSE <<Test("test_one", <<"s">>)>>]
        : sc \in ScopeValues, rets \in SeqsUpTo(ReturnKinds, MaxReturns)}

\* a project analysed once, with no validation cache on disk
InitPlain ==
    /\ module_file = RelativeFiles /\ cache_file = NoCacheFile
    /\ replay = NoReplay /\ xdist = NoXdist /\ task_file = NoTaskFile /\ InitChecker

Init == files \in Projects(UsageKinds, MaxDecls) /\ InitPlain
InitShadow == files \in Projects(ShadowKinds, MaxShadowDecls) /\ InitPlain
InitScope == files \in ScopeProjects /\ InitPlain
InitStateful == files \in StatefulProjects /\ InitPlain
InitUnresolved == files \in Projects(UnresolvedKinds, MaxDecls) /\ InitPlain
InitCache ==
    /\ files \in CacheProjects /\ module_file = RelativeFiles
    /\ cache_file \in CacheFiles /\ replay = NoReplay /\ xdist = NoXdist
    /\ task_file = NoTaskFile /\ InitChecker
\* a run in a working directory that may hold the task file of an earlier run
InitTasks ==
    /\ files \in CacheProjects /\ module_file = RelativeFiles
    /\ cache_file \in TaskRunCacheFiles /\ replay = NoReplay /\ xdist = NoXdist
    /\ task_file \in EarlierTaskFiles /\ InitChecker
\* the first of two runs over a project of the usage family, the modules
\* walked in any order of at most MaxVisits entries
InitReplay ==
    /\ files \in Projects(UsageKinds, MaxDecls) /\ module_file = RelativeFiles
    /\ cache_file = NoCacheFile
    /\ replay \in {[run |-> 1, order |-> o, next |-> 1, first |-> {}] :
                      o \in SeqsUpTo(Paths, MaxVisits) \ {<<>>}}
    /\ xdist = NoXdist /\ task_file = NoTaskFile
    /\ InitChecker
InitBody == files \in BodyProjects /\ InitPlain
InitTestBody ==
    /\ files \in TestBodyProjects /\ module_file \in FileKinds
    /\ cache_file = NoCacheFile /\ replay = NoReplay /\ xdist = NoXdist
    /\ task_file = NoTaskFile /\ InitChecker
InitMerge ==
    /\ files = [f \in Paths |-> <<>>] /\ module_file = RelativeFiles
    /\ cache_file = NoCacheFile /\ replay = NoReplay
    /\ xdist \in {[graphs |-> gs, merged |-> NoMerge] : gs \in SeqsUpTo(WorkerGraphs, MaxWorkers)}
    /\ task_file = NoTaskFile /\ InitChecker
InitXdist == files \in Projects(UsageKinds, MaxDecls) /\ InitPlain
InitParams == files \in ParamProjects /\ InitPlain
InitAutouse == files \in Projects(AutouseKinds, MaxDecls) /\ InitPlain

Spec == Init /\ [][Next]_vars
SpecShadow == InitShadow /\ [][Next]_vars
SpecScope == InitScope /\ [][Next]_vars
SpecStateful == InitStateful /\ [][Next]_vars
SpecAutouse == InitAutouse /\ [][Next]_vars
SpecBody == InitBody /\ [][NextBody]_vars
SpecReplay == InitReplay /\ [][NextReplay]_vars
SpecCache == InitCache /\ [][Next]_vars
SpecUnresolved == InitUnresolved /\ [][Next]_vars
SpecMerge == InitMerge /\ [][NextMerge]_vars
SpecXdist == InitXdist /\ [][NextXdist]_vars
SpecParams == InitParams /\ [][Next]_vars
SpecTestBody == InitTestBody /\ [][NextTestBody]_vars
SpecTasks == InitTasks /\ [][Next]_vars

(***************************************************************************)
(* Properties                                                              *)
(***************************************************************************)
\* the records of the graph, and the records under one name
Records == Range(AllInfos(fixture_graph))
RecordsNamed(graph, name) == {r \in Range(AllInfos(graph)) : r.name = name}

\* a step that is a close() call, and what it handed to add_message
CloseStep == closes' = closes + 1
Emitted == SubSeq(messages', Len(messages) + 1, Len(messages'))

\* a step that is visit_functiondef on a test entry point
VisitedNode == NodeRef(cur, pos)
VisitTestStep ==
    /\ cur # NoFile /\ phase = "visit" /\ phase' = "body"
    /\ files[cur][pos].name \in TestPrefixed

\* how many messages of a sequence are msgid messages on the given node
CountFor(msgs, msgid, node) ==
    Cardinality({i \in DOMAIN msgs : msgs[i].msgid = msgid /\ msgs[i].node = node})

\* C1: whatever the sequence of visit_module calls, repeated visits of one
\* module included, a fixture declaration node has at most one record in
\* fixture_graph.
C1_AtMostOneRecordPerNode ==
    \A f \in Paths : \A i \in DOMAIN files[f] :
        Cardinality({k \in DOMAIN AllInfos(fixture_graph) :
                        AllInfos(fixture_graph)[k].node = NodeRef(f, i)}) <= 1

\* C1 witness: a module holding a fixture has been visited twice
C1_Witness ==
    \E f \in Paths : visits[f] >= 2 /\ \E r \in Records : r.node[1] = f

\* the rank of the five scopes
C2_Rank(scope) ==
    CASE scope = "function" -> 1 [] scope = "class" -> 2 [] scope = "module" -> 3
      [] scope = "package" -> 4 [] scope = "session" -> 5

\* C2: close() emits an invalid-scope diagnostic for record R and dependency
\* name D exactly when D has a record and rank(R.scope) > rank(scope of the
\* first record named D); the diagnostic carries R's name, R's scope, D and
\* D's scope.  (Stated for scopes that have a rank.)
C2_InvalidScopeExactly ==
    [][CloseStep =>
        /\ \A r \in Records : \A d \in Range(r.dependencies) :
             LET resolves == \E k \in DOMAIN fixture_graph : fixture_graph[k].key = d
                 first == (CHOOSE b \in Range(fixture_graph) : b.key = d).infos[1]
                 hits == {i \in DOMAIN Emitted :
                             /\ Emitted[i].msgid = "pytest-fix-invalid-scope"
                             /\ Emitted[i].node = r.node
                             /\ Emitted[i].args[3] = d}
             IN IF ~resolves THEN hits = {}
                ELSE (r.scope \in ScopeNames /\ first.scope \in ScopeNames) =>
                       IF C2_Rank(r.scope) > C2_Rank(first.scope)
                       THEN /\ Cardinality(hits) = 1
                            /\ \A i \in hits :
                                 Emitted[i].args = <<r.name, r.scope, d, first.scope>>
                       ELSE hits = {}
        /\ \A i \in DOMAIN Emitted :
             Emitted[i].msgid = "pytest-fix-invalid-scope" =>
                \E r \in Records : r.node = Emitted[i].node
                                   /\ Emitted[i].args[3] \in Range(r.dependencies)
    ]_vars

\* C2 witness: close() has reported r against the first of two declarations
\* of d, and the second declaration alone would not have been reported
C2_Witness ==
    /\ closes >= 1
    /\ \E i \in DOMAIN messages : messages[i].msgid = "pytest-fix-invalid-scope"
    /\ \E b \in Range(fixture_graph) :
          /\ b.key = "d" /\ Len(b.infos) = 2
          /\ \A r \in RecordsNamed(fixture_graph, "r") :
                /\ r.scope \in ScopeNames /\ b.infos[2].scope \in ScopeNames
                /\ C2_Rank(r.scope) <= C2_Rank(b.infos[2].scope)

\* C3: close() reports a record as unused if and only if its autouse flag is
\* false, its used_by set is empty and its name is in the dependencies of no
\* other record (its own dependencies do not count).
C3_UnusedIffNoOtherUse ==
    [][CloseStep =>
        \A r \in Records :
            (CountFor(Emitted, "pytest-fix-unused", r.node) >= 1)
            <=> /\ r.autouse = "False"
                /\ r.used_by = {}
                /\ ~\E o \in Records : o.node # r.node /\ r.name \in Range(o.dependencies)
    ]_vars

\* C4: a record whose autouse flag is true is never reported unused by
\* close(), whatever its used_by set and the other records.
C4_AutouseNeverUnused ==
    [][CloseStep =>
        \A r \in Records :
            r.autouse = "True" => CountFor(Emitted, "pytest-fix-unused", r.node) = 0
    ]_vars

\* C4 witness: close() has run on a graph holding an autouse record that no
\* test and no fixture uses
C4_Witness ==
    /\ closes >= 1
    /\ \E r \in Records :
          /\ r.autouse = "True" /\ r.used_by = {}
          /\ ~\E o \in Records : r.name \in Range(o.dependencies)

\* C5 as stated: when a test with parameter p is visited and the graph holds
\* records named p, the test's identifier is in used_by of every one of them.
C5_EveryRecordMarked ==
    [][VisitTestStep =>
        \A p \in Range(files[cur][pos].args) :
            \A r \in RecordsNamed(fixture_graph', p) : TestName(VisitedNode) \in r.used_by
    ]_vars

\* C5 amended: the same for every parameter p other than the receiver names
\* self and cls.
C5_EveryRecordMarkedExceptReceiver ==
    [][VisitTestStep =>
        \A p \in Range(files[cur][pos].args) \ {"self", "cls"} :
            \A r \in RecordsNamed(fixture_graph', p) : TestName(VisitedNode) \in r.used_by
    ]_vars

\* C5 witness: a name other than a receiver name has two or more records and
\* a test has been marked on every one of them
C5_Witness ==
    \E b \in Range(fixture_graph) :
        /\ b.key \notin {"self", "cls"}
        /\ Len(b.infos) >= 2
        /\ \E t \in DOMAIN test_fixture_usage : \A i \in DOMAIN b.infos : t \in b.infos[i].used_by

\* C6: when close() runs its checks, every visited test T and every record R
\* whose name is a parameter of T satisfy T in R.used_by, whatever the order
\* in which the files were visited.
C6_ConsumersCompleteAtClose ==
    [][CloseStep =>
        \A t \in DOMAIN test_fixture_usage : \A p \in Range(test_fixture_usage[t]) :
            \A r \in RecordsNamed(fixture_graph, p) : t \in r.used_by
    ]_vars

\* the shadow diagnostics for a name in a sequence of messages
ShadowDiagnostics(msgs, name) ==
    {i \in DOMAIN msgs : msgs[i].msgid = "pytest-fix-shadowed" /\ msgs[i].args[1] = name}

\* names that have two or more records and are a parameter of a visited test
ShadowedAndConsumed ==
    {b.key : b \in {c \in Range(fixture_graph) :
        /\ Len(c.infos) >= 2
        /\ \E t \in DOMAIN test_fixture_usage : c.key \in Range(test_fixture_usage[t])}}

\* C7: when the run ends with close(), a name with two or more records that
\* is consumed by one or more tests has exactly one shadow diagnostic over
\* the whole run, which references the first and the last declaring file.
C7_ExactlyOneShadowDiagnostic ==
    [][(CloseStep /\ closes = 0) =>
        \A name \in ShadowedAndConsumed :
            /\ Cardinality(ShadowDiagnostics(messages', name)) = 1
            /\ \A i \in ShadowDiagnostics(messages', name) :
                  LET infos == (CHOOSE b \in Range(fixture_graph) : b.key = name).infos
                  IN messages'[i].args = <<name, infos[1].file_path, infos[Len(infos)].file_path>>
    ]_vars

\* C8: when close() starts, every name with more than one record that is a
\* parameter of a visited test already has a shadow diagnostic; close()
\* itself emits none.
C8_ShadowReportedBeforeClose ==
    [][CloseStep =>
        /\ \A name \in ShadowedAndConsumed : ShadowDiagnostics(messages, name) # {}
        /\ \A i \in DOMAIN Emitted : Emitted[i].msgid # "pytest-fix-shadowed"
    ]_vars

\* a return expression that is a mutable aggregate: a list, dict or set
\* literal, a call of list, dict or set, or a call inferred to give one
C9_MutableAggregate(ret) ==
    \/ ret.type \in {"List", "Dict", "Set"}
    \/ ret.type = "Call" /\ ret.qualname \in {"list", "dict", "set"}
    \/ ret.type = "Call"
       /\ ret.pytypes \cap {"builtins.list", "builtins.dict", "builtins.set"} # {}

\* C9: close() emits the stateful-session diagnostic for a record only when
\* its scope is session and some return of its body is a mutable aggregate,
\* then exactly once however many such returns there are; a record of a
\* narrower scope never gets it.
C9_StatefulOnlySessionOnce ==
    [][CloseStep =>
        \A r \in Records :
            LET n == CountFor(Emitted, "pytest-fix-stateful-session", r.node)
                returns == files[r.node[1]][r.node[2]].returns
            IN /\ n >= 1 => /\ r.scope = "session"
                            /\ \E k \in DOMAIN returns : C9_MutableAggregate(returns[k])
                            /\ n = 1
               /\ r.scope \in {"function", "class", "module", "package"} => n = 0
    ]_vars

\* C9 witness: close() has reported a session fixture with two mutable returns
C9_Witness ==
    /\ closes >= 1
    /\ \E i \in DOMAIN messages :
          /\ messages[i].msgid = "pytest-fix-stateful-session"
          /\ LET returns == files[messages[i].node[1]][messages[i].node[2]].returns
             IN Cardinality({k \in DOMAIN returns : C9_MutableAggregate(returns[k])}) >= 2

\* the diagnostics that only close() emits
FinalizationMsgids ==
    {"pytest-fix-invalid-scope", "pytest-fix-unused", "pytest-fix-stateful-session",
     "pytest-no-contract-hint", "pytest-fix-overly-broad-scope", "pytest-xdist-fixture-io"}

\* C10: graph validation runs at most once per checker: once a close() has
\* run the checks (it has emitted a graph diagnostic), a later close() on the
\* same checker emits nothing.
C10_SecondCloseEmitsNothing ==
    [][(/\ CloseStep /\ closes >= 1
        /\ \E i \in DOMAIN messages : messages[i].msgid \in FinalizationMsgids)
       => messages' = messages]_vars

\* C11: once close() has run its checks (it has emitted a graph diagnostic),
\* no later visit_module or visit_functiondef call adds a record to
\* fixture_graph, adds a consumer to a record's used_by, or changes
\* test_fixture_usage.
C11_NoMutationAfterClose ==
    [][(/\ closes >= 1
        /\ \E i \in DOMAIN messages : messages[i].msgid \in FinalizationMsgids) =>
          /\ fixture_graph' = fixture_graph
          /\ test_fixture_usage' = test_fixture_usage]_vars

\* C12: over any sequence of visit_module, visit_functiondef and close
\* calls, the record of a declaration keeps its name, scope, autouse flag,
\* dependencies and declaring file, and its used_by set only grows.
C12_RecordsImmutableUsedByGrows ==
    [][\A r \in Records :
          \E q \in Range(AllInfos(fixture_graph')) :
              /\ q.node = r.node
              /\ q.name = r.name /\ q.scope = r.scope /\ q.autouse = r.autouse
              /\ q.dependencies = r.dependencies /\ q.file_path = r.file_path
              /\ r.used_by \subseteq q.used_by]_vars

\* C12 witness: a record whose used_by set has grown twice
C12_Witness == \E r \in Records : Cardinality(r.used_by) >= 2

\* C13: every record in fixture_graph has a scope that is one of function,
\* class, module, package, session, whatever literal the scope keyword of
\* its decorator holds.
C13_ScopeIsOneOfFive == \A r \in Records : r.scope \in ScopeNames

\* C14: the list of records under each name is in first-visit order for the
\* whole run: every step leaves each list a prefix of what it becomes, so a
\* new record is appended at the end, none is moved or removed, and the
\* first element stays the earliest-visited declaration of the name.
C14_ListsAppendOnly ==
    [][\A k \in DOMAIN fixture_graph :
          /\ k \in DOMAIN fixture_graph'
          /\ fixture_graph'[k].key = fixture_graph[k].key
          /\ Len(fixture_graph'[k].infos) >= Len(fixture_graph[k].infos)
          /\ \A i \in DOMAIN fixture_graph[k].infos :
                fixture_graph'[k].infos[i].node = fixture_graph[k].infos[i].node]_vars

\* C14 witness: a name holds the records of two files, the later-visited
\* file's record behind the earlier one's
C14_Witness ==
    \E b \in Range(fixture_graph) :
        /\ Len(b.infos) >= 2
        /\ b.infos[1].file_path # b.infos[Len(b.infos)].file_path
        /\ visits[b.infos[1].node[1]] >= 1 /\ visits[b.infos[Len(b.infos)].node[1]] >= 1

\* a declaration whose fixture decorator carries autouse=True
C15_DeclaredAutouse(node) ==
    \E i \in DOMAIN node.decorators : \E j \in DOMAIN node.decorators[i].keywords :
        /\ node.decorators[i].keywords[j].arg = "autouse"
        /\ node.decorators[i].keywords[j].value = "True"

C16_Unresolved(graph, r) == {d \in Range(r.dependencies) : ~HasKey(graph, d)}

\* C16: a dependency name with no record at finalization gets no diagnostic
\* and raises no error, and the scope check goes on: every dependency that
\* does resolve to a narrower first declaration is reported, in the same
\* record and in the records after it.
C16_UnresolvedSkipped ==
    [][CloseStep =>
        /\ error' = NoError
        /\ \A i \in DOMAIN Emitted :
              Emitted[i].msgid = "pytest-fix-invalid-scope"
                 => HasKey(fixture_graph, Emitted[i].args[3])
        /\ \A r \in Records : \A d \in Range(r.dependencies) \ C16_Unresolved(fixture_graph, r) :
              LET first == Get(fixture_graph, d)[1] IN
              C2_Rank(r.scope) > C2_Rank(first.scope) =>
                 \E i \in DOMAIN Emitted :
                     /\ Emitted[i].msgid = "pytest-fix-invalid-scope"
                     /\ Emitted[i].node = r.node
                     /\ Emitted[i].args = <<r.name, r.scope, d, first.scope>>
    ]_vars

\* C16 witness: close() has reported a dependency that stands behind an
\* unresolved one in its record, and that record stands behind a record
\* with an unresolved dependency
C16_Witness ==
    /\ closes >= 1
    /\ \E i \in DOMAIN messages : \E k \in DOMAIN AllInfos(fixture_graph) :
          LET r == AllInfos(fixture_graph)[k] IN
          /\ messages[i].msgid = "pytest-fix-invalid-scope"
          /\ messages[i].node = r.node
          /\ \E m, n \in DOMAIN r.dependencies :
                /\ m < n
                /\ ~HasKey(fixture_graph, r.dependencies[m])
                /\ r.dependencies[n] = messages[i].args[3]
          /\ \E e \in 1..(k - 1) :
                C16_Unresolved(fixture_graph, AllInfos(fixture_graph)[e]) # {}

\* a JSON value that is an object all of whose members are objects
C17_ObjectOfObjects(v) ==
    v.json = "object" /\ \A k \in DOMAIN v.members : v.members[k].json = "object"

\* a cache file with no fault: a JSON object whose validation section, when
\* present, is an object of per-test objects of per-heuristic objects
C17_WellFormed(file) ==
    /\ file.state = "json"
    /\ file.data.json = "object"
    /\ \A k \in DOMAIN file.data.members :
          /\ C17_ObjectOfObjects(file.data.members[k])
          /\ \A t \in DOMAIN file.data.members[k].members :
                C17_ObjectOfObjects(file.data.members[k].members[t])

\* C17: a missing or corrupt validation cache never becomes an error: the
\* checker is constructed and no handler raises, and every test it leaves
\* that lacks a scenario marker gets the missing-scenario diagnostic, as
\* with no cache at all.
C17_CorruptCacheNeverError ==
    ~C17_WellFormed(cache_file) =>
        /\ error = NoError
        /\ \A i \in DOMAIN messages :
              (/\ messages[i].msgid = "pytest-test-no-assert"
               /\ ~NodeAt(messages[i].node).facts.has_bdd_traceability)
              => (\/ CountFor(messages, "pytest-bdd-missing-scenario", messages[i].node) >= 1
                  \/ (cur = messages[i].node[1] /\ _in_test_function))

C19_OnlyModuleLevelRecords ==
    /\ \A r \in Records :
          /\ Len(r.node) = Len(NodeRef(r.node[1], 1))
          /\ NodeAt(r.node).type = "FunctionDef"
    /\ \A f \in Paths : \A i \in DOMAIN files[f] : \A j \in DOMAIN files[f][i].body :
          /\ \A r \in Records : r.node # ChildRef(f, i, j)
          /\ id(ChildRef(f, i, j)) \notin _processed_fixtures

\* C19 witness: a module whose class holds a fixture-decorated function has
\* been visited twice and the traversal stands in that function
C19_Witness ==
    /\ cur # NoFile /\ phase = "nested" /\ visits[cur] >= 2
    /\ files[cur][pos].type = "ClassDef"
    /\ is_pytest_fixture(files[cur][pos].body[sub])

\* C20: an open() call inside a test function produces pytest-flk-io-open
\* at the line of the call, whether the test takes tmp_path or no resource
\* fixture, and an open() call outside any test function produces nothing.
C20_OpenInTestReported ==
    [][(/\ AtStatement("Call") /\ sub' = sub + 1
        /\ files[cur][pos].body[sub].qualname = "open") =>
          IF is_test_function(files[cur][pos])
          THEN Emitted = <<Message("pytest-flk-io-open", ChildRef(cur, pos, sub),
                                   Lineno(ChildRef(cur, pos, sub)), <<>>)>>
          ELSE Emitted = <<>>]_vars

\* the names of the graph in order, each with the nodes of its records in order
C21_Shape(graph) ==
    [i \in DOMAIN graph |->
        [key |-> graph[i].key, nodes |-> MapSeq(LAMBDA r : r.node, graph[i].infos)]]

\* C21: the set and order of the records change only in a visit_module
\* call: visiting a test entry point, visiting the statements of a body and
\* close() leave them as they are.  close() also leaves every used_by set
\* and test_fixture_usage as they are, so each of its checks reports on the
\* same graph whichever runs first: what close() emits is, as a set, the
\* union of what the six checks find in the graph it was called on.
C21_GraphChangedOnlyByVisitModule ==
    [][/\ visits' = visits => C21_Shape(fixture_graph') = C21_Shape(fixture_graph)
       /\ CloseStep =>
             /\ fixture_graph' = fixture_graph
             /\ test_fixture_usage' = test_fixture_usage
             /\ fixture_graph # <<>> =>
                   Range(Emitted) =
                       Range(_check_fixture_scope_dependencies(fixture_graph'))
                       \cup Range(_check_unused_fixtures(fixture_graph'))
                       \cup Range(_check_stateful_session_fixtures(fixture_graph'))
                       \cup Range(_check_fixtures_without_contracts(fixture_graph'))
                       \cup Range(_check_overly_broad_scopes(fixture_graph'))
                       \cup Range(_check_xdist_fixture_io(fixture_graph'))]_vars

\* C21 witness: close() has reported on a graph that holds two records of
\* one name, both marked by a test whose body the traversal went through
C21_Witness ==
    /\ closes >= 1
    /\ \E i \in DOMAIN messages : messages[i].msgid \in FinalizationMsgids
    /\ \E i \in DOMAIN messages : messages[i].msgid = "pytest-test-fixture-mutation"
    /\ \E b \in Range(fixture_graph) :
          Len(b.infos) >= 2 /\ \A k \in DOMAIN b.infos : b.infos[k].used_by # {}

\* C22: every part of the checker keys a test by the same identifier: the
\* key under which leave_functiondef files a test in the validation-task map
\* (and looks it up in the validation cache) is the key visit_functiondef
\* stored for it in test_fixture_usage and in used_by, which is also the key
\* the fixture-mutation check looks up, whatever the module's file is.
C22_OneIdentifierPerTest ==
    \A i \in DOMAIN _semantic_validation_tasks :
        /\ _semantic_validation_tasks[i].key \in DOMAIN test_fixture_usage
        /\ _semantic_validation_tasks[i].key \in DOMAIN _test_fixture_params

\* the cache file on disk says kind is validated for the test: it is a JSON
\* object whose validation section maps the identifier to an object whose
\* member kind is an object with "validated": true
C23_Validated(file, test_id, kind) ==
    /\ file.state = "json" /\ file.data.json = "object"
    /\ "tests_with_semantic_validation" \in DOMAIN file.data.members
    /\ LET section == file.data.members["tests_with_semantic_validation"] IN
       /\ section.json = "object" /\ test_id \in DOMAIN section.members
       /\ section.members[test_id].json = "object"
       /\ kind \in DOMAIN section.members[test_id].members
       /\ LET entry == section.members[test_id].members[kind] IN
          /\ entry.json = "object" /\ "validated" \in DOMAIN entry.members
          /\ entry.members["validated"] = JTrue

\* the validation types filed for a test in a task map
C23_Types(tasks, test_id) ==
    UNION {Range(tasks[i].types) : i \in {j \in DOMAIN tasks : tasks[j].key = test_id}}

\* a step that is leave_functiondef on a test entry point and raises nothing
C23_LeaveTestStep ==
    /\ cur # NoFile /\ phase = "body" /\ phase' = "visit"
    /\ is_test_function(files[cur][pos])
    /\ error' = NoError

C24_UsageListsParameters ==
    [][VisitTestStep =>
        /\ TestName(VisitedNode) \in DOMAIN test_fixture_usage'
        /\ test_fixture_usage'[TestName(VisitedNode)] =
              SelectSeq(files[cur][pos].args, LAMBDA a : a \notin {"self", "cls"})]_vars

\* C24 amended: the same for a test entry point that has a formal parameter;
\* visiting a test without parameters leaves test_fixture_usage as it is.
C24_UsageListsParametersWhenAny ==
    [][VisitTestStep =>
        IF files[cur][pos].args = <<>>
        THEN test_fixture_usage' = test_fixture_usage
        ELSE /\ TestName(VisitedNode) \in DOMAIN test_fixture_usage'
             /\ test_fixture_usage'[TestName(VisitedNode)] =
                   SelectSeq(files[cur][pos].args, LAMBDA a : a \notin {"self", "cls"})]_vars

\* C24 witness: a test that takes a receiver, request and the undeclared zz
\* has been visited and is listed with request and zz
C24_Witness ==
    \E f \in Paths : \E i \in DOMAIN files[f] :
        /\ is_test_function(files[f][i])
        /\ {"self", "request", "zz"} \subseteq Range(files[f][i].args)
        /\ TestName(NodeRef(f, i)) \in DOMAIN test_fixture_usage
        /\ Range(test_fixture_usage[TestName(NodeRef(f, i))]) = {"request", "zz"}

\* C25: a shadow diagnostic for a name whose records are declared in two or
\* more different files cites two different files, the file of the first
\* record and the file of the last record; when all the records are
\* declared in one file it cites that file twice.
C25_ShadowCitesFirstAndLast ==
    [][\A i \in DOMAIN Emitted :
          Emitted[i].msgid = "pytest-fix-shadowed" =>
             LET infos == Get(fixture_graph, Emitted[i].args[1])
                 declaring == {infos[k].node[1] : k \in DOMAIN infos}
             IN /\ Emitted[i].args[2] = infos[1].file_path
                /\ Emitted[i].args[3] = infos[Len(infos)].file_path
                /\ (Cardinality(declaring) >= 2) <=> (Emitted[i].args[2] # Emitted[i].args[3])]_vars

\* C25 witness: a name declared once in each of the two files has a shadow
\* diagnostic that cites the two files, the first-visited one first
C25_Witness ==
    \E i \in DOMAIN messages :
        /\ messages[i].msgid = "pytest-fix-shadowed"
        /\ messages[i].args[2] # messages[i].args[3]
        /\ LET infos == Get(fixture_graph, messages[i].args[1]) IN
           /\ Len(infos) = 2 /\ infos[1].node[1] # infos[2].node[1]
           /\ messages[i].args[2] = infos[1].file_path

\* the keys of a saved dict, and the worker results that hold a key
C26_Keys(d) == {d[i].key : i \in DOMAIN d}
C26_FixtureHolders(name) == {i \in DOMAIN xdist.graphs : DHas(xdist.graphs[i].fixtures, name)}
C26_UsageHolders(test) == {i \in DOMAIN xdist.graphs : DHas(xdist.graphs[i].test_usage, test)}

\* C26: the merged graph holds the fixture names and the test identifiers
\* of the worker graphs and no other; the merged used_by of a name is, as a
\* set, the union of the used_by lists of that name over the worker graphs,
\* and the merged list of a test the union of its lists over the worker
\* graphs.
C26_MergeIsUnion ==
    xdist.merged.done =>
        /\ C26_Keys(xdist.merged.fixtures) =
              UNION {C26_Keys(xdist.graphs[i].fixtures) : i \in DOMAIN xdist.graphs}
        /\ \A name \in C26_Keys(xdist.merged.fixtures) :
              Range(DGet(xdist.merged.fixtures, name).used_by) =
                 UNION {Range(DGet(xdist.graphs[i].fixtures, name).used_by) :
                           i \in C26_FixtureHolders(name)}
        /\ C26_Keys(xdist.merged.test_usage) =
              UNION {C26_Keys(xdist.graphs[i].test_usage) : i \in DOMAIN xdist.graphs}
        /\ \A test \in C26_Keys(xdist.merged.test_usage) :
              Range(DGet(xdist.merged.test_usage, test)) =
                 UNION {Range(DGet(xdist.graphs[i].test_usage, test)) :
                           i \in C26_UsageHolders(test)}

\* C26 witness: two worker graphs that hold different consumers of a and
\* different lists of t1 have been merged, the richer one first
C26_Witness ==
    /\ xdist.merged.done /\ Len(xdist.graphs) = 2
    /\ C26_FixtureHolders("a") = {1, 2} /\ C26_UsageHolders("t1") = {1, 2}
    /\ DGet(xdist.graphs[1].fixtures, "a").used_by = <<"t2", "t1">>
    /\ DGet(xdist.graphs[2].fixtures, "a").used_by = <<"t1">>
    /\ DGet(xdist.graphs[1].test_usage, "t1") = <<"b", "a">>
    /\ DGet(xdist.graphs[2].test_usage, "t1") = <<"a">>

\* C27: distributing the modules over workers, saving each worker's graph
\* and merging the saved graphs raises nothing and loses no declaration:
\* every fixture declaration of a module some worker visited is in the
\* merged graph under its name, with its file.
C27_MergeLosesNoDeclaration ==
    /\ error = NoError
    /\ xdist.merged.done =>
          \A f \in Paths : \A i \in DOMAIN files[f] :
              (visits[f] >= 1 /\ is_pytest_fixture(files[f][i])) =>
                 \E k \in DOMAIN xdist.merged.fixtures :
                     /\ xdist.merged.fixtures[k].key = files[f][i].name
                     /\ xdist.merged.fixtures[k].value.file_path = FileOrUnknown(module_file[f])

\* the orders in which n worker graphs can be listed
C28_Orders(n) == {p \in [1..n -> 1..n] : \A i, j \in 1..n : p[i] = p[j] => i = j}

\* two merged graphs with the same names, the same scope, autouse flag,
\* dependencies and file of each name, the same used_by set of each name and
\* the same set of dependency names of each test
C28_SameMerge(m, n) ==
    /\ C26_Keys(m.fixtures) = C26_Keys(n.fixtures)
    /\ \A name \in C26_Keys(m.fixtures) :
          LET x == DGet(m.fixtures, name)
              y == DGet(n.fixtures, name)
          IN /\ x.scope = y.scope /\ x.autouse = y.autouse
             /\ x.dependencies = y.dependencies /\ x.file_path = y.file_path
             /\ Range(x.used_by) = Range(y.used_by)
    /\ C26_Keys(m.test_usage) = C26_Keys(n.test_usage)
    /\ \A test \in C26_Keys(m.test_usage) :
          Range(DGet(m.test_usage, test)) = Range(DGet(n.test_usage, test))

\* C28: merging the worker graphs leaves them as they were and gives, for
\* every order in which they are listed, the same merged graph.
C28_MergeOrderIndependent ==
    [][(~xdist.merged.done /\ xdist.merged'.done) =>
          /\ xdist.graphs' = xdist.graphs
          /\ \A p \in C28_Orders(Len(xdist.graphs)) :
                C28_SameMerge(xdist.merged',
                              merge_fixture_graphs([i \in DOMAIN xdist.graphs |->
                                                       xdist.graphs[p[i]]]))]_vars

\* the assert statements among the first n statements of a body
C29_Asserts(body, n) == {k \in 1..n : k <= Len(body) /\ body[k].type = "Assert"}

\* C29: while the walker stands in the body of a top-level test function,
\* _in_test_function is true and the assertion flag and count are those of
\* the assert statements of that body the walker has been through, also
\* after it has left a function nested in the test; when the body is done
\* this is what the test's leave_functiondef sees.
C29_CountersBelongToEnclosingTest ==
    (error = NoError /\ cur # NoFile /\ phase = "body"
        /\ is_test_function(files[cur][pos])) =>
       LET seen == C29_Asserts(files[cur][pos].body, sub - 1) IN
       /\ _in_test_function
       /\ _assertion_count = Cardinality(seen)
       /\ _test_has_assertions = (seen # {})

\* C30: after every close() the tasks the runtime plugin loads from the
\* task file are exactly the tasks this checker marked; when it marked
\* none, the plugin loads none.
C30_TaskFileListsThisRun ==
    [][CloseStep => _load_validation_tasks(task_file') = _semantic_validation_tasks]_vars

====
